---------------------------- MODULE Spec2Model ----------------------------
(* Read-through caching proxy in front of the BrAPI quote service           *)
(* (src/main.py): the in-memory cache with its TTL, the three upstream      *)
(* fetch operations, the three single-ticker handlers and the batch         *)
(* handler.                                                                 *)
(*                                                                          *)
(* Strings are sequences of one-character strings, so that upper(),         *)
(* strip(), split(",") and the f-string cache keys are computed character   *)
(* by character.  A JSON payload (a dict) is the set of its keys: {} is     *)
(* the empty dict, the only falsy payload.  An Optional value is <<>>       *)
(* (None) or <<v>>.  Time is counted in minutes.                            *)
EXTENDS Integers, Sequences, FiniteSets, TLC

VARIABLES
    cache,      \* main.py:34  dict: cache key -> (data, timestamp)
    now,        \* datetime.now(), in minutes
    h,          \* one record per request handler task (coroutine)
    started,    \* number of requests accepted so far
    origin,     \* history: cache key -> the upstream URLs whose result was
                \* saved under it
    twin,       \* SpecBatch: one batch request run twice over
    probe       \* SpecText: inputs and results of the key derivation

vars == <<cache, now, h, started, origin, twin, probe>>

\* what the service itself neither reads nor writes
aux == <<twin, probe>>

(***************************************************************************)
(* Bounds and constants                                                    *)
(***************************************************************************)
CACHE_TTL_MINUTES == 5

\* the clock is read at minute 0, one minute before the TTL has passed, and
\* at every minute from there to MaxNow
MaxNow == 5

Instants == {0, CACHE_TTL_MINUTES - 1} \cup (CACHE_TTL_MINUTES..MaxNow)

MaxReqs == 2

\* the slots of the request handler tasks that can be alive at once
Procs == {1, 2}

(***************************************************************************)
(* Text                                                                    *)
(***************************************************************************)
UpperChar(c) ==
    CASE c = "a" -> "A"
      [] c = "b" -> "B"
      [] c = "c" -> "C"
      [] c = "f" -> "F"
      [] c = "l" -> "L"
      [] c = "u" -> "U"
      [] OTHER   -> c

IsSpace(c) == c = " "

\* str.upper()
Upper(s) == [i \in 1..Len(s) |-> UpperChar(s[i])]

RECURSIVE LStrip(_)
LStrip(s) ==
    IF s # <<>> /\ IsSpace(Head(s)) THEN LStrip(Tail(s)) ELSE s

RECURSIVE RStrip(_)
RStrip(s) ==
    IF s # <<>> /\ IsSpace(s[Len(s)]) THEN RStrip(SubSeq(s, 1, Len(s) - 1)) ELSE s

\* str.strip()
Strip(s) == LStrip(RStrip(s))

\* str.split(","): always at least one segment
RECURSIVE SplitFrom(_, _, _)
SplitFrom(s, i, cur) ==
    IF i > Len(s) THEN <<cur>>
    ELSE IF s[i] = "," THEN <<cur>> \o SplitFrom(s, i + 1, <<>>)
    ELSE SplitFrom(s, i + 1, Append(cur, s[i]))

Split(s) == SplitFrom(s, 1, <<>>)

\* the normalization without upper(): strip() alone
NormalizeTicker_strip_only(raw) == Strip(raw)

\* ticker.upper().strip() of the single-ticker handlers
NormalizeTicker(raw) == Strip(Upper(raw))

\* t.strip().upper() of the batch handler
NormalizeBatchTicker(raw) == Upper(Strip(raw))

\* s without the later occurrences of its elements
RECURSIVE Unique(_)
Unique(s) ==
    IF s = <<>> THEN <<>>
    ELSE LET r == Unique(SubSeq(s, 1, Len(s) - 1))
         IN  IF \E k \in 1..Len(r) : r[k] = s[Len(s)]
             THEN r ELSE Append(r, s[Len(s)])

\* the list with each ticker once
TickerList_unique(tickers) ==
    LET segs == Split(tickers)
    IN  Unique([i \in 1..Len(segs) |-> NormalizeBatchTicker(segs[i])])

\* [t.strip().upper() for t in tickers.split(",")]
TickerList(tickers) ==
    LET segs == Split(tickers)
    IN  [i \in 1..Len(segs) |-> NormalizeBatchTicker(segs[i])]

(***************************************************************************)
(* Cache keys                                                              *)
(***************************************************************************)
QuoteKey(ticker) == <<"q","u","o","t","e","_">> \o ticker

QuoteFullKey(ticker) ==
    <<"q","u","o","t","e","_","f","u","l","l","_">> \o ticker

HistoryKey(ticker, range) ==
    <<"h","i","s","t","o","r","y","_">> \o ticker \o <<"_">> \o range

(***************************************************************************)
(* Cache store                                                             *)
(***************************************************************************)
None == <<>>

Some(v) == <<v>>

\* `if cached:` -- None and the empty dict are falsy
Truthy(opt) == opt # None /\ opt[1] # {}

\* get_from_cache with the comparison of the age off by one: <= for <
get_from_cache_inclusive(c, key, t) ==
    IF key \in DOMAIN c
    THEN IF t - c[key].timestamp <= CACHE_TTL_MINUTES
         THEN Some(c[key].data)
         ELSE None
    ELSE None

get_from_cache(c, key, t) ==
    IF key \in DOMAIN c
    THEN IF t - c[key].timestamp < CACHE_TTL_MINUTES
         THEN Some(c[key].data)
         ELSE None
    ELSE None

\* save_to_cache that also drops the entries of the other keys that have
\* expired
save_to_cache_purge(c, key, data, t) ==
    [k \in {x \in DOMAIN c : t - c[x].timestamp < CACHE_TTL_MINUTES} \cup {key} |->
        IF k = key THEN [data |-> data, timestamp |-> t] ELSE c[k]]

save_to_cache(c, key, data, t) ==
    [k \in DOMAIN c \cup {key} |->
        IF k = key THEN [data |-> data, timestamp |-> t] ELSE c[k]]


(***************************************************************************)
(* Upstream client                                                         *)
(***************************************************************************)
\* what `await client.get(url)` can produce: a response (status code and a
\* JSON body with or without a `results` list), or an exception of the
\* transport (timeout after 30 s, connection error)
Bodies ==
    { [has_results |-> FALSE, results |-> <<>>],
      [has_results |-> TRUE,  results |-> <<>>],
      [has_results |-> TRUE,  results |-> << {} >>],
      [has_results |-> TRUE,  results |-> << {"price"}, {} >>] }

ErrorBodies ==
    { [has_results |-> FALSE, results |-> <<>>],
      [has_results |-> TRUE,  results |-> << {"price"} >>] }

Raised == [kind |-> "raised"]

Replies ==
    { [kind |-> "response", status_code |-> 200, body |-> b] : b \in Bodies }
    \cup { [kind |-> "response", status_code |-> 500, body |-> b] : b \in ErrorBodies }
    \cup { Raised }

NoReply == [kind |-> "none"]

HTTPException(status_code, detail) ==
    [cls |-> "HTTPException", status_code |-> status_code, detail |-> detail]

TransportError ==
    [cls |-> "TransportError", status_code |-> 0, detail |-> <<"transport">>]

Return(v) == [ok |-> TRUE, value |-> v]

Raise(e) == [ok |-> FALSE, exc |-> e]

fetch_quote_url(ticker) == [fn |-> "fetch_quote", ticker |-> ticker, query |-> {}]

fetch_quote(ticker, reply) ==
    IF reply.kind = "raised" THEN Raise(TransportError)
    ELSE IF reply.status_code # 200
    THEN Raise(HTTPException(reply.status_code, <<"Erro ao consultar BrAPI">>))
    ELSE IF ~reply.body.has_results \/ Len(reply.body.results) = 0
    THEN Raise(HTTPException(404, <<"Ticker", ticker, "nao encontrado">>))
    ELSE Return(reply.body.results[1])

fetch_quote_with_details_url(ticker) ==
    [fn |-> "fetch_quote_with_details", ticker |-> ticker,
     query  |-> { <<"fundamental", <<"true">> >>, <<"dividends", <<"true">> >> }]

fetch_quote_with_details(ticker, reply) ==
    IF reply.kind = "raised" THEN Raise(TransportError)
    ELSE IF reply.status_code # 200
    THEN Raise(HTTPException(reply.status_code, <<"Erro ao consultar BrAPI">>))
    ELSE IF ~reply.body.has_results \/ Len(reply.body.results) = 0
    THEN Raise(HTTPException(404, <<"Ticker", ticker, "nao encontrado">>))
    ELSE Return(reply.body.results[1])

fetch_historical_url(ticker, range_period) ==
    [fn |-> "fetch_historical", ticker |-> ticker,
     query  |-> { <<"range", range_period>>, <<"interval", <<"1","d">> >> }]

\* fetch_historical with the body looked at before the status code
fetch_historical_body_first(ticker, range_period, reply) ==
    IF reply.kind = "raised" THEN Raise(TransportError)
    ELSE IF ~reply.body.has_results \/ Len(reply.body.results) = 0
    THEN Raise(HTTPException(404, <<"Ticker", ticker, "nao encontrado">>))
    ELSE IF reply.status_code # 200
    THEN Raise(HTTPException(reply.status_code, <<"Erro ao consultar BrAPI">>))
    ELSE Return(reply.body.results[1])

fetch_historical(ticker, range_period, reply) ==
    IF reply.kind = "raised" THEN Raise(TransportError)
    ELSE IF reply.status_code # 200
    THEN Raise(HTTPException(reply.status_code, <<"Erro ao consultar BrAPI">>))
    ELSE IF ~reply.body.has_results \/ Len(reply.body.results) = 0
    THEN Raise(HTTPException(404, <<"Ticker", ticker, "nao encontrado">>))
    ELSE Return(reply.body.results[1])

(***************************************************************************)
(* Request handlers                                                        *)
(*                                                                         *)
(* A handler is a coroutine on one event loop: it runs without             *)
(* interruption up to `await client.get(url)`, is suspended while the      *)
(* upstream call is outstanding (pc = "await"), and when the reply is      *)
(* there runs on to its next await or to its end (pc = "done").  `raw` is  *)
(* the request's parameter as received, `reply` the reply to the latest    *)
(* call of the request and `calls` the number of upstream calls it has     *)
(* issued.                                                                 *)
(***************************************************************************)
NoUrl == [fn |-> "none", ticker |-> <<>>, query |-> {}]

NoOut == [type |-> "none"]

Idle ==
    [pc |-> "idle", kind |-> "none", raw |-> <<>>, ticker |-> <<>>,
     range |-> <<>>, cache_key |-> <<>>, url |-> NoUrl, reply |-> NoReply,
     ticker_list |-> <<>>, results |-> <<>>, out |-> NoOut, calls |-> 0]

\* a new request gets the first slot that holds no running handler; a slot
\* whose handler has ended keeps its record until then
Free(p) ==
    /\ h[p].pc \in {"idle", "done"}
    /\ \A q \in Procs : q < p => h[q].pc = "await"

\* the handler table once slot p has taken a new request with record `rec`:
\* the records of the handlers that had ended are dropped
Accept(p, rec) ==
    [q \in Procs |->
        IF q = p THEN rec ELSE IF h[q].pc = "done" THEN Idle ELSE h[q]]

\* return {"source": ..., "data": ...}
Response(source, data) == [type |-> "response", source |-> source, data |-> data]

\* the exception leaves the handler
Failure(exc) == [type |-> "error", exc |-> exc]

\* the history of the keys, once the result of `url` is saved under `key`
Saved(o, key, url) ==
    [k \in DOMAIN o \cup {key} |->
        IF k = key
        THEN (IF key \in DOMAIN o THEN o[key] ELSE {}) \cup {url}
        ELSE o[k]]

\* Begin that deletes the entry it finds expired
Begin_evict(p, kind, raw, ticker, range, key, url) ==
    LET cached == get_from_cache(cache, key, now)
        base   == [Idle EXCEPT !.kind = kind, !.raw = raw, !.ticker = ticker,
                               !.range = range, !.cache_key = key]
    IN  /\ Free(p)
        /\ started < MaxReqs
        /\ started' = started + 1
        /\ h' = Accept(p,
                    IF Truthy(cached)
                    THEN [base EXCEPT !.pc = "done",
                                      !.out = Response("cache", cached[1])]
                    ELSE [base EXCEPT !.pc = "await", !.url = url, !.calls = 1])
        /\ cache' = IF key \in DOMAIN cache /\ cached = None
                    THEN [k \in DOMAIN cache \ {key} |-> cache[k]]
                    ELSE cache
        /\ UNCHANGED <<now, origin, aux>>

\* a single-ticker handler from its entry to its first return or await
Begin(p, kind, raw, ticker, range, key, url) ==
    LET cached == get_from_cache(cache, key, now)
        base   == [Idle EXCEPT !.kind = kind, !.raw = raw, !.ticker = ticker,
                               !.range = range, !.cache_key = key]
    IN  /\ Free(p)
        /\ started < MaxReqs
        /\ started' = started + 1
        /\ h' = Accept(p,
                    IF Truthy(cached)
                    THEN [base EXCEPT !.pc = "done",
                                      !.out = Response("cache", cached[1])]
                    ELSE [base EXCEPT !.pc = "await", !.url = url, !.calls = 1])
        /\ UNCHANGED <<cache, now, origin, aux>>

\* Finish without the save_to_cache of lines 144, 165 and 190
Finish_unsaved(p, reply, outcome) ==
    /\ cache' = cache
    /\ origin' = origin
    /\ h' = [h EXCEPT ![p].pc = "done", ![p].reply = reply,
                      ![p].out = IF outcome.ok
                                 THEN Response("api", outcome.value)
                                 ELSE Failure(outcome.exc)]

\* Finish that answers a failed fetch from the entry under the key, however
\* old, when there is one
Finish_stale(p, reply, outcome) ==
    IF outcome.ok
    THEN /\ cache' = save_to_cache(cache, h[p].cache_key, outcome.value, now)
         /\ origin' = Saved(origin, h[p].cache_key, h[p].url)
         /\ h' = [h EXCEPT ![p].pc = "done", ![p].reply = reply,
                           ![p].out = Response("api", outcome.value)]
    ELSE /\ cache' = cache
         /\ origin' = origin
         /\ h' = [h EXCEPT ![p].pc = "done", ![p].reply = reply,
                           ![p].out =
                               IF h[p].cache_key \in DOMAIN cache
                               THEN Response("cache", cache[h[p].cache_key].data)
                               ELSE Failure(outcome.exc)]

\* Finish that leaves a fresh entry under the key as it is (the first write
\* of a race stays)
Finish_first_write(p, reply, outcome) ==
    IF outcome.ok
    THEN /\ cache' = IF Truthy(get_from_cache(cache, h[p].cache_key, now))
                     THEN cache
                     ELSE save_to_cache(cache, h[p].cache_key, outcome.value, now)
         /\ origin' = Saved(origin, h[p].cache_key, h[p].url)
         /\ h' = [h EXCEPT ![p].pc = "done", ![p].reply = reply,
                           ![p].out = Response("api", outcome.value)]
    ELSE /\ cache' = cache
         /\ origin' = origin
         /\ h' = [h EXCEPT ![p].pc = "done", ![p].reply = reply,
                           ![p].out = Failure(outcome.exc)]

\* Finish that calls upstream a second time when the first call has failed
Finish_retry(p, reply, outcome) ==
    IF outcome.ok
    THEN /\ cache' = save_to_cache(cache, h[p].cache_key, outcome.value, now)
         /\ origin' = Saved(origin, h[p].cache_key, h[p].url)
         /\ h' = [h EXCEPT ![p].pc = "done", ![p].reply = reply,
                           ![p].out = Response("api", outcome.value)]
    ELSE /\ cache' = cache
         /\ origin' = origin
         /\ h' = IF h[p].calls < 2
                 THEN [h EXCEPT ![p].reply = reply, ![p].calls = @ + 1]
                 ELSE [h EXCEPT ![p].pc = "done", ![p].reply = reply,
                                ![p].out = Failure(outcome.exc)]

\* a single-ticker handler from the end of its fetch to its own end
Finish(p, reply, outcome) ==
    IF outcome.ok
    THEN /\ cache' = save_to_cache(cache, h[p].cache_key, outcome.value, now)
         /\ origin' = Saved(origin, h[p].cache_key, h[p].url)
         /\ h' = [h EXCEPT ![p].pc = "done", ![p].reply = reply,
                           ![p].out = Response("api", outcome.value)]
    ELSE /\ cache' = cache
         /\ origin' = origin
         /\ h' = [h EXCEPT ![p].pc = "done", ![p].reply = reply,
                           ![p].out = Failure(outcome.exc)]

get_quote(p, raw) ==
    LET ticker    == NormalizeTicker(raw)
        cache_key == QuoteKey(ticker)
    IN  Begin(p, "quote", raw, ticker, <<>>, cache_key, fetch_quote_url(ticker))

get_quote_resume(p, reply) ==
    /\ h[p].pc = "await" /\ h[p].kind = "quote"
    /\ Finish(p, reply, fetch_quote(h[p].ticker, reply))
    /\ UNCHANGED <<now, started, aux>>

get_quote_full(p, raw) ==
    LET ticker    == NormalizeTicker(raw)
        cache_key == QuoteFullKey(ticker)
    IN  Begin(p, "quote_full", raw, ticker, <<>>, cache_key,
              fetch_quote_with_details_url(ticker))

get_quote_full_resume(p, reply) ==
    /\ h[p].pc = "await" /\ h[p].kind = "quote_full"
    /\ Finish(p, reply, fetch_quote_with_details(h[p].ticker, reply))
    /\ UNCHANGED <<now, started, aux>>

get_history(p, raw, range) ==
    LET ticker    == NormalizeTicker(raw)
        cache_key == HistoryKey(ticker, range)
    IN  Begin(p, "history", raw, ticker, range, cache_key,
              fetch_historical_url(ticker, range))

get_history_resume(p, reply) ==
    /\ h[p].pc = "await" /\ h[p].kind = "history"
    /\ Finish(p, reply, fetch_historical(h[p].ticker, h[p].range, reply))
    /\ UNCHANGED <<now, started, aux>>

\* str(e) of line 219: an HTTPException prints as "<status>: <detail>", any
\* other exception as its message
StrExc(e) ==
    IF e.cls = "HTTPException" THEN <<e.status_code>> \o e.detail ELSE e.detail

\* the three dicts get_multiple_quotes appends to `results`
CacheItem(ticker, data) == [ticker |-> ticker, source |-> "cache", data |-> data]

ApiItem(ticker, data) == [ticker |-> ticker, source |-> "api", data |-> data]

ErrorItem(ticker, exc) == [ticker |-> ticker, error |-> StrExc(exc)]

\* the iterations of the loop that end without an await (cache hits), from
\* the item after `results` on: `results` as the loop leaves it at the next
\* miss or at the end of the list
RECURSIVE LoopHits(_, _, _, _)
LoopHits(ticker_list, results, c, t) ==
    IF Len(results) = Len(ticker_list) THEN results
    ELSE LET ticker    == ticker_list[Len(results) + 1]
             cache_key == QuoteKey(ticker)
             cached    == get_from_cache(c, cache_key, t)
         IN  IF Truthy(cached)
             THEN LoopHits(ticker_list, Append(results, CacheItem(ticker, cached[1])), c, t)
             ELSE results

\* AfterFetch with `except HTTPException` for `except Exception`: any other
\* exception leaves the loop
AfterFetch_http_only(ticker, c, t, reply) ==
    LET outcome == fetch_quote(ticker, reply)
    IN  IF outcome.ok
        THEN [item  |-> ApiItem(ticker, outcome.value),
              cache |-> save_to_cache(c, QuoteKey(ticker), outcome.value, t),
              saved |-> TRUE, uncaught |-> None]
        ELSE [item  |-> ErrorItem(ticker, outcome.exc),
              cache |-> c,
              saved |-> FALSE,
              uncaught |-> IF outcome.exc.cls = "HTTPException"
                           THEN None ELSE Some(outcome.exc)]

\* AfterFetch that stores the failure of the call under the key
AfterFetch_error_saved(ticker, c, t, reply) ==
    LET outcome == fetch_quote(ticker, reply)
    IN  IF outcome.ok
        THEN [item  |-> ApiItem(ticker, outcome.value),
              cache |-> save_to_cache(c, QuoteKey(ticker), outcome.value, t),
              saved |-> TRUE, uncaught |-> None]
        ELSE [item  |-> ErrorItem(ticker, outcome.exc),
              cache |-> save_to_cache(c, QuoteKey(ticker), {"error"}, t),
              saved |-> FALSE, uncaught |-> None]

\* the else branch of the loop body once fetch_quote has ended, and the
\* except clause: the item appended, the cache as the iteration leaves it,
\* and the exception that leaves the try statement uncaught (none: the
\* clause is `except Exception`)
AfterFetch(ticker, c, t, reply) ==
    LET outcome == fetch_quote(ticker, reply)
    IN  IF outcome.ok
        THEN [item  |-> ApiItem(ticker, outcome.value),
              cache |-> save_to_cache(c, QuoteKey(ticker), outcome.value, t),
              saved |-> TRUE, uncaught |-> None]
        ELSE [item  |-> ErrorItem(ticker, outcome.exc),
              cache |-> c,
              saved |-> FALSE, uncaught |-> None]

\* LoopOn that starts the calls of all the items that are left at once
LoopOn_all_at_once(rec, results, c, t) ==
    LET res == LoopHits(rec.ticker_list, results, c, t)
    IN  IF Len(res) = Len(rec.ticker_list)
        THEN [rec EXCEPT !.pc = "done", !.results = res,
                         !.out = [type |-> "batch", results |-> res]]
        ELSE LET ticker == rec.ticker_list[Len(res) + 1]
             IN  [rec EXCEPT !.pc = "await", !.results = res,
                             !.ticker = ticker, !.cache_key = QuoteKey(ticker),
                             !.url = fetch_quote_url(ticker),
                             !.calls = rec.calls + Len(rec.ticker_list) - Len(res)]

\* the handler record after the loop has run from `results` on to its next
\* await (fetch_quote of the first item that misses) or to `return`
LoopOn(rec, results, c, t) ==
    LET res == LoopHits(rec.ticker_list, results, c, t)
    IN  IF Len(res) = Len(rec.ticker_list)
        THEN [rec EXCEPT !.pc = "done", !.results = res,
                         !.out = [type |-> "batch", results |-> res]]
        ELSE LET ticker == rec.ticker_list[Len(res) + 1]
             IN  [rec EXCEPT !.pc = "await", !.results = res,
                             !.ticker = ticker, !.cache_key = QuoteKey(ticker),
                             !.url = fetch_quote_url(ticker),
                             !.calls = rec.calls + 1]

get_multiple_quotes(p, tickers) ==
    LET ticker_list == TickerList(tickers)
        base        == [Idle EXCEPT !.kind = "batch", !.raw = tickers,
                                    !.ticker_list = ticker_list]
    IN  /\ Free(p)
        /\ started < MaxReqs
        /\ started' = started + 1
        /\ h' = Accept(p, LoopOn(base, <<>>, cache, now))
        /\ UNCHANGED <<cache, now, origin, aux>>

get_multiple_quotes_resume(p, reply) ==
    LET after == AfterFetch(h[p].ticker, cache, now, reply)
    IN  /\ h[p].pc = "await" /\ h[p].kind = "batch"
        /\ cache' = after.cache
        /\ origin' = IF after.saved
                     THEN Saved(origin, h[p].cache_key, h[p].url)
                     ELSE origin
        /\ h' = [h EXCEPT ![p] =
                    IF after.uncaught # None
                    THEN [h[p] EXCEPT !.pc = "done", !.reply = reply,
                                      !.out = Failure(after.uncaught[1])]
                    ELSE LoopOn([h[p] EXCEPT !.reply = reply],
                                Append(h[p].results, after.item),
                                after.cache, now)]
        /\ UNCHANGED <<now, started, aux>>

(***************************************************************************)
(* Environment                                                             *)
(***************************************************************************)
\* time passes, up to the next instant
Tick ==
    /\ \E t \in Instants : t > now
    /\ now' = CHOOSE t \in Instants : t > now /\ \A u \in Instants : u > now => t <= u
    /\ UNCHANGED <<cache, h, started, origin, aux>>

(***************************************************************************)
(* The service                                                             *)
(***************************************************************************)
RawTickers == { <<"a">> }

\* the same ticker in another spelling, and a ticker whose lower-case
\* spelling begins like the key of the other kind
RawQuoteTickers ==
    RawTickers \cup { <<" ", "A", " ">>, <<"f", "u", "l", "l", "_", "a">> }

Ranges == { <<"1", "d">> }

RawLists == { <<"a", ",", " ", "A">> }

NoTwin == [run |-> FALSE]

NoProbe == [fn |-> "none"]

Init ==
    /\ cache = << >>
    /\ now = 0
    /\ h = [p \in Procs |-> Idle]
    /\ started = 0
    /\ origin = << >>
    /\ twin = NoTwin
    /\ probe = NoProbe

Next ==
    \/ \E p \in Procs, raw \in RawQuoteTickers : get_quote(p, raw)
    \/ \E p \in Procs, reply \in Replies : get_quote_resume(p, reply)
    \/ \E p \in Procs, raw \in RawTickers : get_quote_full(p, raw)
    \/ \E p \in Procs, reply \in Replies : get_quote_full_resume(p, reply)
    \/ \E p \in Procs, raw \in RawTickers, range \in Ranges : get_history(p, raw, range)
    \/ \E p \in Procs, reply \in Replies : get_history_resume(p, reply)
    \/ \E p \in Procs, tickers \in RawLists : get_multiple_quotes(p, tickers)
    \/ \E p \in Procs, reply \in Replies : get_multiple_quotes_resume(p, reply)
    \/ Tick

Spec == Init /\ [][Next]_vars

(***************************************************************************)
(* The service with an upstream that answers                               *)
(*                                                                         *)
(* Every upstream call ends: client.get has a timeout of 30 s (main.py:56, *)
(* 72, 88), after which it raises.  A handler that waits is therefore      *)
(* resumed, with some reply, sooner or later.  SpecLive is the service     *)
(* under this condition, within one reading of the clock: no step of a     *)
(* handler waits for time to pass, and an entry that has expired sends a   *)
(* handler the same way as no entry.                                       *)
(***************************************************************************)
\* the upstream call of handler p ends, with some reply
Answer(p) ==
    \E reply \in Replies :
        \/ get_quote_resume(p, reply)
        \/ get_quote_full_resume(p, reply)
        \/ get_history_resume(p, reply)
        \/ get_multiple_quotes_resume(p, reply)

UpstreamAnswers == \A p \in Procs : WF_vars(Answer(p))

NextLive ==
    \/ \E p \in Procs, raw \in RawQuoteTickers : get_quote(p, raw)
    \/ \E p \in Procs, raw \in RawTickers : get_quote_full(p, raw)
    \/ \E p \in Procs, raw \in RawTickers, range \in Ranges : get_history(p, raw, range)
    \/ \E p \in Procs, tickers \in RawLists : get_multiple_quotes(p, tickers)
    \/ \E p \in Procs : Answer(p)

SpecLive == Init /\ [][NextLive]_vars /\ UpstreamAnswers

(***************************************************************************)
(* One batch request, run twice                                            *)
(*                                                                         *)
(* SpecBatch runs get_multiple_quotes alone, on every parameter of up to   *)
(* MaxLen characters, one iteration of its loop per step, in two worlds at *)
(* once: world a, and world b, in which the upstream answers one of the    *)
(* calls that fail in world a (the call of item i) with a payload.  Both   *)
(* worlds start from the same cache at the same time and get the same      *)
(* replies otherwise.                                                      *)
(***************************************************************************)
MaxLen == 3

Strings(alphabet, n) == UNION { [1..k -> alphabet] : k \in 0..n }

BatchAlphabet == {"a", "A", "b", ",", " "}

OkReply ==
    [kind |-> "response", status_code |-> 200,
     body |-> [has_results |-> TRUE, results |-> << {"price"}, {} >>]]

BatchReplies ==
    { OkReply,
      [kind |-> "response", status_code |-> 200,
       body |-> [has_results |-> TRUE, results |-> <<>>]],
      [kind |-> "response", status_code |-> 500,
       body |-> [has_results |-> FALSE, results |-> <<>>]],
      Raised }

\* the cache the request finds: empty, or one entry stored at minute 0
BatchCaches ==
    { << >>, save_to_cache(<< >>, QuoteKey(<<"A">>), {"name"}, 0) }

\* the time of the request: one minute before that entry expires, or later
BatchInstants == {CACHE_TTL_MINUTES - 1, CACHE_TTL_MINUTES}

\* one iteration of the loop, the upstream call (if it is made) answered by
\* `reply`
Iteration(ticker, c, t, reply) ==
    LET cached == get_from_cache(c, QuoteKey(ticker), t)
    IN  IF Truthy(cached)
        THEN [item |-> CacheItem(ticker, cached[1]), cache |-> c,
              uncaught |-> None, called |-> FALSE]
        ELSE LET after == AfterFetch(ticker, c, t, reply)
             IN  [item |-> after.item, cache |-> after.cache,
                  uncaught |-> after.uncaught, called |-> TRUE]

World(c) == [results |-> <<>>, cache |-> c, called |-> {}, out |-> NoOut]

\* iteration j in a world that is still in its loop
Advance(w, ticker_list, j, t, reply) ==
    IF w.out # NoOut THEN w
    ELSE LET it      == Iteration(ticker_list[j], w.cache, t, reply)
             results == Append(w.results, it.item)
         IN  [results |-> IF it.uncaught # None THEN w.results ELSE results,
              cache   |-> it.cache,
              called  |-> IF it.called THEN w.called \cup {j} ELSE w.called,
              out     |-> IF it.uncaught # None
                            THEN Failure(it.uncaught[1])
                          ELSE IF j = Len(ticker_list)
                            THEN [type |-> "batch", results |-> results]
                          ELSE NoOut]

Calls(w, ticker_list, j, t) ==
    /\ w.out = NoOut
    /\ ~Truthy(get_from_cache(w.cache, QuoteKey(ticker_list[j]), t))

BatchBegin(tickers, c, t) ==
    /\ ~twin.run
    /\ twin' = [run |-> TRUE, pc |-> "loop", tickers |-> tickers,
                ticker_list |-> TickerList(tickers), cache |-> c, at |-> t,
                script |-> <<>>, i |-> 0, a |-> World(c), b |-> World(c)]
    /\ UNCHANGED <<cache, now, h, started, origin, probe>>

\* iteration j in both worlds; `pick` makes j the item whose failure world b
\* does not see
BatchItem(reply, pick) ==
    /\ twin.run
    /\ twin.pc = "loop"
    /\ LET j  == Len(twin.script) + 1
           tl == twin.ticker_list
       IN  /\ (reply = NoReply) <=> ( /\ ~Calls(twin.a, tl, j, twin.at)
                                      /\ ~Calls(twin.b, tl, j, twin.at) )
           /\ pick => /\ twin.i = 0
                      /\ Calls(twin.a, tl, j, twin.at)
                      /\ reply # OkReply
           /\ twin' = [twin EXCEPT
                  !.script = Append(@, reply),
                  !.i  = IF pick THEN j ELSE @,
                  !.a  = Advance(@, tl, j, twin.at, reply),
                  !.b  = Advance(@, tl, j, twin.at,
                                 IF pick THEN OkReply ELSE reply),
                  !.pc = IF j = Len(tl) THEN "done" ELSE "loop"]
    /\ UNCHANGED <<cache, now, h, started, origin, probe>>

NextBatch ==
    \/ \E tickers \in Strings(BatchAlphabet, MaxLen), c \in BatchCaches,
          t \in BatchInstants : BatchBegin(tickers, c, t)
    \/ \E reply \in BatchReplies \cup {NoReply}, pick \in BOOLEAN :
          BatchItem(reply, pick)

SpecBatch == Init /\ [][NextBatch]_vars

(***************************************************************************)
(* The key derivation alone                                                *)
(*                                                                         *)
(* SpecText applies the first two statements of the single-ticker handlers *)
(* (normalize the ticker, build the cache key) to one request and then to  *)
(* a second one, on every raw ticker of 1 to MaxLen characters (a path     *)
(* parameter is not empty) and every range of up to MaxLen characters.     *)
(***************************************************************************)
TickerAlphabet == {"a", "_"}

RangeAlphabet == {"A", "_"}

\* cache_key of a handler of the given kind, from its normalized ticker
CacheKey(kind, ticker, range) ==
    CASE kind = "quote"      -> QuoteKey(ticker)
      [] kind = "quote_full" -> QuoteFullKey(ticker)
      [] kind = "history"    -> HistoryKey(ticker, range)

\* the logical request of a call, and its key; range is "" but for history
KeyOf(kind, raw, range) ==
    LET ticker == NormalizeTicker(raw)
        r      == IF kind = "history" THEN range ELSE <<>>
    IN  [request |-> [kind |-> kind, ticker |-> ticker, range |-> r],
         cache_key |-> CacheKey(kind, ticker, r)]

\* the derivation for one request, and then for a second one
ProbeKeys(kind, raw, range) ==
    /\ probe.fn \in {"none", "one"}
    /\ kind # "history" => range = <<>>
    /\ probe' = IF probe.fn = "none"
                THEN [fn |-> "one", first |-> KeyOf(kind, raw, range)]
                ELSE [fn |-> "keys", first |-> probe.first,
                      second |-> KeyOf(kind, raw, range)]
    /\ UNCHANGED <<cache, now, h, started, origin, twin>>

NextText ==
    \E kind \in {"quote", "quote_full", "history"},
       raw \in Strings(TickerAlphabet, MaxLen) \ {<<>>},
       range \in Strings(RangeAlphabet, MaxLen) :
        ProbeKeys(kind, raw, range)

SpecText == Init /\ [][NextText]_vars

(***************************************************************************)
(* History requests alone                                                  *)
(*                                                                         *)
(* SpecHistory runs get_history on two requests whose tickers and ranges   *)
(* contain the "_" that the key is joined with.                            *)
(***************************************************************************)
HistoryRequests ==
    { [raw |-> <<"a", "_", "a">>, range |-> <<"1", "d">>],
      [raw |-> <<"a">>,           range |-> <<"A", "_", "1", "d">>] }

NextHistory ==
    \/ \E p \in Procs, req \in HistoryRequests :
          get_history(p, req.raw, req.range)
    \/ \E p \in Procs, reply \in Replies : get_history_resume(p, reply)
    \/ Tick

SpecHistory == Init /\ [][NextHistory]_vars

(***************************************************************************)
(* Properties of the service                                               *)
(***************************************************************************)
SingleKinds == {"quote", "quote_full", "history"}

\* the reply is a 200 response whose `results` list is not empty
Succeeds(reply) ==
    /\ reply.kind = "response"
    /\ reply.status_code = 200
    /\ reply.body.has_results
    /\ Len(reply.body.results) > 0

\* handler p runs on from its await in this step
Resumes(p) == h[p].pc = "await" /\ h'[p] # h[p]

\* handler p saves the result of its call in this step
Saves(p) == Resumes(p) /\ Succeeds(h'[p].reply)

\* a new request is accepted into slot p in this step
Begins(p) == started' = started + 1 /\ h'[p].pc # "idle" /\ Free(p)

\* C1 (cache freshness).  Whenever a handler saves payload v under key k at
\* time t0, a lookup of k at any instant t from t0 on (with no other save in
\* between) returns v if t - t0 < 5 minutes and None if t - t0 >= 5 minutes;
\* and in every state the lookup of every entry at the current time returns
\* its payload exactly when the entry is less than 5 minutes old.
C1_CacheFreshness ==
    [][ /\ \A p \in Procs :
            Saves(p) =>
                LET k == h[p].cache_key
                    v == h'[p].reply.body.results[1]
                IN  \A t \in Instants :
                        t >= now =>
                            get_from_cache(cache', k, t) =
                                IF t - now < 5 THEN Some(v) ELSE None
        /\ \A k \in DOMAIN cache' :
                get_from_cache(cache', k, now') =
                    IF now' - cache'[k].timestamp < 5
                    THEN Some(cache'[k].data) ELSE None
      ]_vars

\* an entry is exactly 5 minutes old, and another one is younger
C1_Witness ==
    /\ \E k \in DOMAIN cache : now - cache[k].timestamp = 5
    /\ \E k \in DOMAIN cache : now - cache[k].timestamp < 5

\* the entry under `key` is less than 5 minutes old at time t
Fresh(c, key, t) == key \in DOMAIN c /\ t - c[key].timestamp < 5

\* the upstream operation of each kind of request
Operation(kind) ==
    CASE kind = "quote"      -> "fetch_quote"
      [] kind = "quote_full" -> "fetch_quote_with_details"
      [] kind = "history"    -> "fetch_historical"
      [] kind = "batch"      -> "fetch_quote"

\* C2 (idempotent refresh), as claimed.  When a get_quote request has been
\* answered from upstream (one call, any payload the upstream can return,
\* the empty object included) and the next get_quote request for the same
\* ticker arrives less than 5 minutes after the payload was stored, the
\* second request issues no upstream call, so that the two issue exactly one
\* call in total, and it is answered from the cache with source "cache".
C2_IdempotentRefresh ==
    [][ \A p, q \in Procs :
            ( /\ h[p].pc = "done" /\ h[p].kind = "quote"
              /\ h[p].calls = 1 /\ Succeeds(h[p].reply)
              /\ Begins(q) /\ h'[q].kind = "quote"
              /\ h'[q].ticker = h[p].ticker
              /\ Fresh(cache, h[p].cache_key, now) )
            => /\ h[p].calls + h'[q].calls = 1
               /\ h'[q].pc = "done"
               /\ h'[q].out = Response("cache", cache[h[p].cache_key].data)
      ]_vars

\* the miss path and the hit path of the single-ticker handlers, with `tag`
\* for the source tag of a response that comes from upstream
MissPath(tag) ==
    \A p \in Procs :
        /\ ( Begins(p) /\ h'[p].kind \in SingleKinds
             /\ ~Fresh(cache, h'[p].cache_key, now) )
           => /\ h'[p].pc = "await"
              /\ h'[p].calls = 1
              /\ h'[p].url.fn = Operation(h'[p].kind)
        /\ ( Resumes(p) /\ h[p].kind \in SingleKinds /\ Succeeds(h'[p].reply) )
           => LET d == h'[p].reply.body.results[1]
              IN  /\ h[p].cache_key \in DOMAIN cache'
                  /\ cache'[h[p].cache_key] = [data |-> d, timestamp |-> now]
                  /\ h'[p].pc = "done"
                  /\ h'[p].out = Response(tag, d)

\* C3, as claimed: on a miss the handler calls the upstream operation of its
\* kind, stores the payload d under the key with the current timestamp and
\* returns data d with source tag "upstream"; on a hit (a fresh entry under
\* the key) the source tag is "cache".
C3_MissPathUpstreamTag ==
    [][ /\ MissPath("upstream")
        /\ \A p \in Procs :
            ( Begins(p) /\ h'[p].kind \in SingleKinds
              /\ Fresh(cache, h'[p].cache_key, now) )
            => /\ h'[p].pc = "done"
               /\ h'[p].out.source = "cache"
      ]_vars

\* C3, amended: as above with the source tag "api" for a response that comes
\* from upstream; a fresh entry with a non-empty payload is answered from
\* the cache, with that payload, source tag "cache" and no upstream call,
\* and a fresh entry with an empty payload takes the miss path.
C3_MissPath ==
    [][ /\ MissPath("api")
        /\ \A p \in Procs :
            ( Begins(p) /\ h'[p].kind \in SingleKinds
              /\ Fresh(cache, h'[p].cache_key, now) )
            => IF cache[h'[p].cache_key].data # {}
               THEN /\ h'[p].pc = "done"
                    /\ h'[p].calls = 0
                    /\ h'[p].out =
                           Response("cache", cache[h'[p].cache_key].data)
               ELSE /\ h'[p].pc = "await"
                    /\ h'[p].calls = 1
                    /\ h'[p].url.fn = Operation(h'[p].kind)
      ]_vars

\* a history request that found a stale entry has replaced it by the payload
\* of its upstream call and returned that payload
C3_Witness ==
    \E p \in Procs :
        /\ h[p].pc = "done" /\ h[p].kind = "history" /\ h[p].calls = 1
        /\ h[p].out = Response("api", {"price"})
        /\ now >= 5
        /\ cache[h[p].cache_key] = [data |-> {"price"}, timestamp |-> now]

\* the exception a fetch raises for a reply that does not succeed
UpstreamFailure(ticker, reply) ==
    IF reply.kind = "raised" THEN TransportError
    ELSE IF reply.status_code # 200
    THEN HTTPException(reply.status_code, <<"Erro ao consultar BrAPI">>)
    ELSE HTTPException(404, <<"Ticker", ticker, "nao encontrado">>)

\* C6 (fail-fast).  A single-ticker request that missed the cache and whose
\* upstream operation failed has ended with exactly the error of that
\* operation (the transport's exception, the upstream's status, or 404 for
\* the ticker) and with no {source, data} response, whether or not an
\* expired entry lies under its key.
C6_FailFast ==
    \A p \in Procs :
        ( /\ h[p].pc = "done" /\ h[p].kind \in SingleKinds
          /\ h[p].calls = 1 /\ ~Succeeds(h[p].reply) )
        => /\ h[p].out.type = "error"
           /\ h[p].out = Failure(UpstreamFailure(h[p].ticker, h[p].reply))
           /\ h[p].reply.kind = "response" /\ h[p].reply.status_code # 200
              => /\ h[p].out.exc.cls = "HTTPException"
                 /\ h[p].out.exc.status_code = h[p].reply.status_code

\* a request has ended with the upstream's status 500 while an expired
\* entry lies under its key
C6_Witness ==
    \E p \in Procs :
        /\ h[p].pc = "done" /\ h[p].kind \in SingleKinds
        /\ h[p].out.type = "error" /\ h[p].out.exc.status_code = 500
        /\ h[p].cache_key \in DOMAIN cache
        /\ ~Fresh(cache, h[p].cache_key, now)

\* C7 (key isolation of quote and detailed quote).  Every entry a
\* get_quote_full request for ticker T reads or writes was stored by
\* fetch_quote_with_details for T and by nothing else, and every entry a
\* get_quote or batch lookup for T reads or writes was stored by fetch_quote
\* for T and by nothing else: a get_quote_full request that no earlier
\* successful get_quote_full for T precedes misses and calls
\* fetch_quote_with_details, whatever get_quote and get_multiple_quotes have
\* stored, and the other way round.
C7_KeyIsolation ==
    /\ DOMAIN origin = DOMAIN cache
    /\ \A p \in Procs :
        /\ h[p].kind = "quote_full"
           => /\ h[p].cache_key \in DOMAIN origin
                 => origin[h[p].cache_key] =
                        {fetch_quote_with_details_url(h[p].ticker)}
              /\ h[p].pc = "done" /\ h[p].calls = 0
                 => h[p].cache_key \in DOMAIN origin
              /\ h[p].pc = "await"
                 => h[p].url = fetch_quote_with_details_url(h[p].ticker)
        /\ h[p].kind \in {"quote", "batch"} /\ h[p].pc # "done"
           => /\ h[p].cache_key \in DOMAIN origin
                 => origin[h[p].cache_key] = {fetch_quote_url(h[p].ticker)}
              /\ h[p].url = fetch_quote_url(h[p].ticker)
        /\ h[p].kind = "quote" /\ h[p].pc = "done"
           => /\ h[p].cache_key \in DOMAIN origin
                 => origin[h[p].cache_key] = {fetch_quote_url(h[p].ticker)}
              /\ h[p].calls = 0 => h[p].cache_key \in DOMAIN origin

\* a get_quote_full request is waiting for upstream although get_quote has
\* stored a fresh, non-empty payload for the same ticker
C7_Witness ==
    \E p \in Procs :
        /\ h[p].kind = "quote_full" /\ h[p].pc = "await"
        /\ Fresh(cache, QuoteKey(h[p].ticker), now)
        /\ cache[QuoteKey(h[p].ticker)].data # {}

\* C10 (upstream result mapping).  For each of the three fetch operations
\* and every response: a status other than 200 fails with an upstream error
\* of that status whatever the body; status 200 without `results` or with
\* an empty list fails with 404 naming the ticker; status 200 with a
\* non-empty list returns its first element; no call ends in two ways.
C10_UpstreamMapping ==
    \A p \in Procs :
        ( /\ h[p].pc = "done" /\ h[p].kind \in SingleKinds
          /\ h[p].reply.kind = "response" )
        => LET r == h[p].reply
           IN  /\ r.status_code # 200
                  => /\ h[p].out.type = "error"
                     /\ h[p].out.exc.cls = "HTTPException"
                     /\ h[p].out.exc.status_code = r.status_code
               /\ ( r.status_code = 200
                    /\ (~r.body.has_results \/ r.body.results = <<>>) )
                  => /\ h[p].out.type = "error"
                     /\ h[p].out.exc.cls = "HTTPException"
                     /\ h[p].out.exc.status_code = 404
                     /\ h[p].out.exc.detail[2] = h[p].ticker
               /\ ( r.status_code = 200
                    /\ r.body.has_results /\ r.body.results # <<>> )
                  => h[p].out = Response("api", Head(r.body.results))

\* fetch_historical has turned a 500 response whose body has no `results`
\* into an error of status 500
C10_Witness ==
    \E p \in Procs :
        /\ h[p].pc = "done" /\ h[p].kind = "history"
        /\ h[p].reply.kind = "response" /\ h[p].reply.status_code = 500
        /\ ~h[p].reply.body.has_results
        /\ h[p].out.type = "error" /\ h[p].out.exc.status_code = 500

(***************************************************************************)
(* Properties of the batch request                                         *)
(***************************************************************************)
\* the position of the k-th comma of s (0 for k = 0, Len(s) + 1 past the last)
CommaPos(s, k) ==
    IF k = 0 THEN 0
    ELSE IF \E i \in 1..Len(s) :
                s[i] = "," /\ Cardinality({j \in 1..i : s[j] = ","}) = k
    THEN CHOOSE i \in 1..Len(s) :
                s[i] = "," /\ Cardinality({j \in 1..i : s[j] = ","}) = k
    ELSE Len(s) + 1

\* the text between the (k-1)-th and the k-th comma of s
Segment(s, k) == SubSeq(s, CommaPos(s, k - 1) + 1, CommaPos(s, k) - 1)

Commas(s) == Cardinality({i \in 1..Len(s) : s[i] = ","})

BatchDone == twin.run /\ twin.pc = "done"

\* C4 (batch order and length).  For every raw parameter the request ends
\* with a results list of exactly (number of commas + 1) entries, and entry
\* k carries the trimmed, upper-cased text between the (k-1)-th and the
\* k-th comma: order kept, duplicates and empty segments kept.
C4_BatchOrderAndLength ==
    BatchDone =>
        /\ twin.a.out.type = "batch"
        /\ Len(twin.a.out.results) = Commas(twin.tickers) + 1
        /\ \A k \in 1..Len(twin.a.out.results) :
              twin.a.out.results[k].ticker =
                  Upper(Strip(Segment(twin.tickers, k)))

\* a list with an empty segment, a duplicate and a lower-case ticker
C4_Witness ==
    /\ BatchDone
    /\ twin.tickers = <<"a", ",", ",">>
    /\ Len(twin.a.out.results) = 3
    /\ twin.a.out.results[1].ticker = <<"A">>
    /\ twin.a.out.results[2].ticker = <<>>
    /\ twin.a.out.results[3].ticker = <<>>

\* every lookup that fails leaves the error record of its item at its
\* position, and the request ends with the whole list
FailuresRecorded ==
    /\ twin.a.out.type = "batch"
    /\ Len(twin.a.out.results) = Len(twin.ticker_list)
    /\ \A j \in twin.a.called :
          ~Succeeds(twin.script[j])
          => twin.a.out.results[j] =
                 [ticker |-> twin.ticker_list[j],
                  error  |-> StrExc(UpstreamFailure(twin.ticker_list[j],
                                                    twin.script[j]))]

\* C5 (batch failure isolation), as claimed: a failure of the lookup of item
\* i (non-200, not found, any other error of the call) puts the error record
\* {ticker, error} at position i, the loop goes on, the request never ends
\* in an error, and every other item has the outcome it has in the run in
\* which item i does not fail.
C5_FailureIsolationAllItems ==
    BatchDone =>
        /\ FailuresRecorded
        /\ twin.i # 0
           => /\ twin.b.out.type = "batch"
              /\ \A j \in 1..Len(twin.ticker_list) :
                    j # twin.i
                    => twin.a.out.results[j] = twin.b.out.results[j]

\* C5, amended: as above, for every other item whose ticker is not the
\* ticker of item i.
C5_FailureIsolation ==
    BatchDone =>
        /\ FailuresRecorded
        /\ twin.i # 0
           => /\ twin.b.out.type = "batch"
              /\ \A j \in 1..Len(twin.ticker_list) :
                    (j # twin.i /\ twin.ticker_list[j] # twin.ticker_list[twin.i])
                    => twin.a.out.results[j] = twin.b.out.results[j]

\* the first of two items has failed by an exception of the transport, the
\* second, for another ticker, has fetched its payload
C5_Witness ==
    /\ BatchDone
    /\ twin.i = 1
    /\ twin.script[1] = Raised
    /\ Len(twin.ticker_list) = 2
    /\ twin.ticker_list[1] # twin.ticker_list[2]
    /\ "error" \in DOMAIN twin.a.out.results[1]
    /\ twin.a.out.results[2] = ApiItem(twin.ticker_list[2], {"price"})
    /\ twin.b.out.results[1] = ApiItem(twin.ticker_list[1], {"price"})

(***************************************************************************)
(* Properties of keys and tickers                                          *)
(***************************************************************************)
\* C8 (cache-key injectivity), as claimed.  The key is a function of the
\* logical request (kind, normalized ticker, and the range for history), and
\* two distinct logical requests never have the same key, tickers and
\* ranges that contain "_" included.
C8_KeyInjectivity ==
    probe.fn = "keys" =>
        ( probe.first.request = probe.second.request
          <=> probe.first.cache_key = probe.second.cache_key )

\* r1 and r2 differ only in letter case and in surrounding whitespace
Alike(r1, r2) ==
    \E i1 \in 1..(Len(r1) + 1), i2 \in 1..(Len(r2) + 1), n \in 0..Len(r1) :
        /\ i1 + n - 1 <= Len(r1) /\ i2 + n - 1 <= Len(r2)
        /\ \A k \in 1..Len(r1) : (k < i1 \/ k >= i1 + n) => IsSpace(r1[k])
        /\ \A k \in 1..Len(r2) : (k < i2 \/ k >= i2 + n) => IsSpace(r2[k])
        /\ \A k \in 0..(n - 1) : UpperChar(r1[i1 + k]) = UpperChar(r2[i2 + k])

\* the tickers of the requests in progress are fixed points of both
\* normalizations, and requests whose raw tickers are alike have the same
\* ticker, the same key and the same upstream call
NormalizationAgrees ==
    /\ \A p \in Procs :
          /\ h[p].kind \in SingleKinds
             => /\ NormalizeTicker(h[p].ticker) = h[p].ticker
                /\ NormalizeBatchTicker(h[p].ticker) = h[p].ticker
          /\ h[p].kind = "batch"
             => \A j \in 1..Len(h[p].ticker_list) :
                   /\ NormalizeBatchTicker(h[p].ticker_list[j])
                          = h[p].ticker_list[j]
                   /\ NormalizeTicker(h[p].ticker_list[j])
                          = h[p].ticker_list[j]
                   /\ \A k \in 1..Len(h[p].ticker_list) :
                         Alike(Split(h[p].raw)[j], Split(h[p].raw)[k])
                         => h[p].ticker_list[j] = h[p].ticker_list[k]
    /\ \A p, q \in Procs :
          /\ ( h[p].kind \in SingleKinds /\ h[q].kind = h[p].kind
               /\ h[q].range = h[p].range /\ Alike(h[p].raw, h[q].raw) )
             => /\ h[p].ticker = h[q].ticker
                /\ h[p].cache_key = h[q].cache_key
                /\ h[p].pc = "await" /\ h[q].pc = "await"
                   => h[p].url = h[q].url
          /\ ( h[p].kind = "quote" /\ h[q].kind = "batch" )
             => \A j \in 1..Len(h[q].ticker_list) :
                   Alike(h[p].raw, Split(h[q].raw)[j])
                   => /\ h[q].ticker_list[j] = h[p].ticker
                      /\ QuoteKey(h[q].ticker_list[j]) = h[p].cache_key

\* C9 (ticker normalization), as claimed.  Normalization is idempotent; raw
\* tickers that differ only in letter case and surrounding whitespace get
\* the same cache key and the same upstream parameter, in the single-ticker
\* handlers and in the batch handler; and a get_quote request that arrives
\* less than 5 minutes after a get_quote request for an alike raw ticker
\* has stored its payload is a cache hit.
C9_TickerNormalization ==
    [][ /\ NormalizationAgrees'
        /\ \A p, q \in Procs :
            ( /\ h[p].pc = "done" /\ h[p].kind = "quote"
              /\ h[p].calls = 1 /\ Succeeds(h[p].reply)
              /\ Begins(q) /\ h'[q].kind = "quote"
              /\ h'[q].raw # h[p].raw /\ Alike(h[p].raw, h'[q].raw)
              /\ Fresh(cache, h[p].cache_key, now) )
            => /\ h'[q].pc = "done"
               /\ h'[q].calls = 0
               /\ h'[q].out.source = "cache"
      ]_vars

(***************************************************************************)
(* Properties of concurrent requests                                       *)
(***************************************************************************)
\* the payload of the successful reply to the latest call of handler p
Payload(rec) == rec.reply.body.results[1]

\* handlers p and q are both waiting for upstream calls for the same key
Racing(p, q) ==
    /\ p # q
    /\ h[p].pc = "await" /\ h[q].pc = "await"
    /\ h[p].cache_key = h[q].cache_key

\* C11 (same-key race).  When two requests wait for upstream calls for the
\* same key (both have seen a miss and neither has written), each has issued
\* a call of its own; the one that resumes first writes (its payload, now)
\* if its call succeeded and nothing if not, gets its own payload, and
\* leaves the call of the other outstanding; every successful call of a
\* request, whenever it ends, puts exactly (its payload, now) under the key,
\* so that the write that happens last stays; and once both requests of a
\* race have ended with a payload, the entry holds the whole payload of one
\* of the two.
C11_SameKeyRace ==
    [][ /\ \A p, q \in Procs :
            (Racing(p, q) /\ Resumes(p))
            => /\ h[p].calls >= 1 /\ h[q].calls >= 1
               /\ h[p].url.fn # "none" /\ h[q].url.fn # "none"
               /\ h'[q] = h[q]
               /\ ~Succeeds(h'[p].reply) => cache' = cache
        /\ \A p \in Procs :
            Saves(p)
            => /\ cache' = save_to_cache(cache, h[p].cache_key,
                                         Payload(h'[p]), now)
               /\ h[p].kind \in SingleKinds
                  => h'[p].out = Response("api", Payload(h'[p]))
               /\ h[p].kind = "batch"
                  => h'[p].results[Len(h[p].results) + 1] =
                         ApiItem(h[p].ticker, Payload(h'[p]))
        /\ \A p, q \in Procs :
            ( /\ p # q
              /\ h'[p].pc = "done" /\ h'[q].pc = "done"
              /\ h'[p].kind \in SingleKinds /\ h'[q].kind \in SingleKinds
              /\ h'[p].cache_key = h'[q].cache_key
              /\ h'[p].calls = 1 /\ h'[q].calls = 1
              /\ Succeeds(h'[p].reply) /\ Succeeds(h'[q].reply) )
            => cache'[h'[p].cache_key].data \in {Payload(h'[p]), Payload(h'[q])}
      ]_vars

\* two get_quote requests have raced for one key: the first has written a
\* non-empty payload, the second has overwritten it with an empty one less
\* than 5 minutes later, and each has got its own payload
C11_Witness ==
    \E p, q \in Procs :
        /\ p # q
        /\ h[p].pc = "done" /\ h[q].pc = "done"
        /\ h[p].kind = "quote" /\ h[q].kind = "quote"
        /\ h[p].cache_key = h[q].cache_key
        /\ h[p].calls = 1 /\ h[q].calls = 1
        /\ h[p].out = Response("api", {"price"})
        /\ h[q].out = Response("api", {})
        /\ now < CACHE_TTL_MINUTES
        /\ cache[h[p].cache_key] = [data |-> {}, timestamp |-> now]

\* the keys a request looks up, from its kind and its parameters
KeysOf(rec) ==
    IF rec.kind = "batch"
    THEN {QuoteKey(rec.ticker_list[j]) : j \in 1..Len(rec.ticker_list)}
    ELSE {CacheKey(rec.kind, rec.ticker, rec.range)}

\* the key of the lookup a request is in
CurrentKey(rec) ==
    IF rec.kind = "batch" THEN QuoteKey(rec.ticker)
    ELSE CacheKey(rec.kind, rec.ticker, rec.range)

\* the cache without the entries of the keys outside K
Only(c, K) == [k \in DOMAIN c \cap K |-> c[k]]

\* C12 (different-key non-interference).  Under every interleaving, a step
\* of a request changes no entry but the one of the key of its lookup, no
\* other request's state, and its result is the one it has when the cache
\* holds the entries of its own keys only: the entries of other keys, and
\* with them the requests for other keys, have no effect on its response
\* and on what it writes.
C12_NonInterference ==
    [][ \A p \in Procs :
          /\ Begins(p)
             => /\ cache' = cache
                /\ h'[p].kind \in SingleKinds
                   => LET k      == CurrentKey(h'[p])
                          cached == get_from_cache(Only(cache, {k}), k, now)
                      IN  IF Truthy(cached)
                          THEN /\ h'[p].pc = "done"
                               /\ h'[p].out = Response("cache", cached[1])
                          ELSE /\ h'[p].pc = "await"
                               /\ h'[p].url.ticker = h'[p].ticker
                /\ h'[p].kind = "batch"
                   => h'[p].results =
                          LoopHits(h'[p].ticker_list, <<>>,
                                   Only(cache, KeysOf(h'[p])), now)
          /\ Resumes(p)
             => /\ \A k \in DOMAIN cache \cup DOMAIN cache' :
                      k # CurrentKey(h[p])
                      => /\ k \in DOMAIN cache /\ k \in DOMAIN cache'
                         /\ cache'[k] = cache[k]
                /\ \A q \in Procs : q # p => h'[q] = h[q]
                /\ h[p].kind \in SingleKinds
                   => h'[p].out =
                          IF Succeeds(h'[p].reply)
                          THEN Response("api", Payload(h'[p]))
                          ELSE Failure(UpstreamFailure(h[p].ticker, h'[p].reply))
                /\ h[p].kind = "batch"
                   => LET item == h'[p].results[Len(h[p].results) + 1]
                      IN  /\ item = IF Succeeds(h'[p].reply)
                                    THEN ApiItem(h[p].ticker, Payload(h'[p]))
                                    ELSE ErrorItem(h[p].ticker,
                                             UpstreamFailure(h[p].ticker,
                                                             h'[p].reply))
                          /\ h'[p].results =
                                 LoopHits(h[p].ticker_list,
                                          Append(h[p].results, item),
                                          Only(cache', KeysOf(h[p])), now)
      ]_vars

\* the second request was accepted while the first was waiting, for another
\* key, and each has stored and returned its own payload
C12_Witness ==
    /\ started = 2
    /\ h[1].pc = "done" /\ h[1].kind = "quote" /\ h[1].calls = 1
    /\ h[2].pc = "done" /\ h[2].kind = "history" /\ h[2].calls = 1
    /\ h[1].out = Response("api", {})
    /\ h[2].out = Response("api", {"price"})
    /\ h[1].cache_key # h[2].cache_key
    /\ cache[h[1].cache_key].data = {}
    /\ cache[h[2].cache_key].data = {"price"}

\* the number of upstream calls of a request that have ended: one for each
\* item of a batch that did not come from the cache, and the one call of a
\* single-ticker request once its reply is there
Answered(rec) ==
    IF rec.kind = "batch"
    THEN Cardinality({k \in 1..Len(rec.results) :
                         "error" \in DOMAIN rec.results[k]
                         \/ rec.results[k].source = "api"})
    ELSE IF rec.reply # NoReply THEN 1 ELSE 0

\* C13 (sequential batch).  A batch request that waits for an upstream call
\* waits for the call of the first item that has no outcome yet, every item
\* before it has its outcome (cache hit, payload or error record) in input
\* order, and no later item has been looked up; and every request, batch or
\* single, has at most one upstream call outstanding: one while it waits,
\* none once it has ended.
C13_SequentialBatch ==
    \A p \in Procs :
        LET rec         == h[p]
            outstanding == rec.calls - Answered(rec)
        IN  /\ outstanding \in {0, 1}
            /\ outstanding = 1 <=> rec.pc = "await"
            /\ rec.kind = "batch"
               => /\ Len(rec.results) <= Len(rec.ticker_list)
                  /\ \A k \in 1..Len(rec.results) :
                        rec.results[k].ticker = rec.ticker_list[k]
                  /\ rec.pc = "await"
                     => LET i == Len(rec.results) + 1
                        IN  /\ i <= Len(rec.ticker_list)
                            /\ rec.ticker = rec.ticker_list[i]
                            /\ rec.url = fetch_quote_url(rec.ticker_list[i])
                  /\ rec.pc = "done"
                     => Len(rec.results) = Len(rec.ticker_list)

\* a batch request waits for the call of its second item, after the call of
\* its first item has failed
C13_Witness ==
    \E p \in Procs :
        /\ h[p].kind = "batch" /\ h[p].pc = "await"
        /\ h[p].calls = 2
        /\ Len(h[p].results) = 1
        /\ "error" \in DOMAIN h[p].results[1]

(***************************************************************************)
(* Properties of the cache contents                                        *)
(***************************************************************************)
\* C14 (reads and staleness leave the cache untouched).  A step in which no
\* handler saves a payload (a lookup, whether it hits, misses or finds the
\* entry expired; a failed call; the passing of time) leaves the cache as it
\* is; a step in which a handler saves changes the entry of its key only,
\* to (its payload, now); no key is ever removed, so the set of keys only
\* grows; and a request that found its entry expired waits for upstream
\* while the entry is still there.
C14_CacheOnlyGrows ==
    [][ /\ DOMAIN cache \subseteq DOMAIN cache'
        /\ (\A p \in Procs : ~Saves(p)) => cache' = cache
        /\ \A p \in Procs : Begins(p) => cache' = cache
        /\ \A k \in DOMAIN cache' :
              (k \notin DOMAIN cache \/ cache'[k] # cache[k])
              => \E p \in Procs :
                    /\ Saves(p)
                    /\ k = h[p].cache_key
                    /\ cache'[k] = [data |-> Payload(h'[p]), timestamp |-> now]
        /\ \A p \in Procs :
              ( Begins(p) /\ h'[p].kind \in SingleKinds
                /\ h'[p].cache_key \in DOMAIN cache
                /\ ~Fresh(cache, h'[p].cache_key, now) )
              => /\ h'[p].pc = "await"
                 /\ cache'[h'[p].cache_key] = cache[h'[p].cache_key]
      ]_vars

\* a request waits for upstream after it found the entry of its key expired,
\* and the entry is there with its non-empty payload and its old timestamp
C14_Witness ==
    \E p \in Procs :
        /\ h[p].pc = "await"
        /\ h[p].cache_key \in DOMAIN cache
        /\ cache[h[p].cache_key].data = {"price"}
        /\ now - cache[h[p].cache_key].timestamp >= CACHE_TTL_MINUTES

\* C15 (no cache write on failure).  The step in which an upstream call of
\* a request fails (status other than 200, no results, exception of the
\* transport), in a single-ticker handler or in a batch item, leaves the
\* whole cache as it was: no entry appears under the key and an expired
\* entry keeps its payload and timestamp.  A lookup of the key that missed
\* before the failure misses after it: when the next item of the batch is
\* the same ticker, the batch calls upstream again.
C15_NoWriteOnFailure ==
    [][ \A p \in Procs :
          (Resumes(p) /\ ~Succeeds(h'[p].reply))
          => LET k == h[p].cache_key
             IN  /\ cache' = cache
                 /\ k \notin DOMAIN cache => k \notin DOMAIN cache'
                 /\ get_from_cache(cache', k, now) = get_from_cache(cache, k, now)
                 /\ ( /\ h[p].kind = "batch"
                      /\ ~Truthy(get_from_cache(cache, k, now))
                      /\ Len(h[p].results) + 2 <= Len(h[p].ticker_list)
                      /\ h[p].ticker_list[Len(h[p].results) + 2] = h[p].ticker )
                    => /\ h'[p].pc = "await"
                       /\ h'[p].calls = h[p].calls + 1
                       /\ h'[p].cache_key = k
      ]_vars

\* the call of the first item of a batch has failed on an expired entry,
\* the entry is as it was, and the batch waits for the call of its second
\* item, the same ticker
C15_Witness ==
    \E p \in Procs :
        /\ h[p].kind = "batch" /\ h[p].pc = "await" /\ h[p].calls = 2
        /\ Len(h[p].results) = 1 /\ "error" \in DOMAIN h[p].results[1]
        /\ h[p].ticker = h[p].results[1].ticker
        /\ h[p].cache_key \in DOMAIN cache
        /\ cache[h[p].cache_key] = [data |-> {"price"}, timestamp |-> 0]
        /\ now >= CACHE_TTL_MINUTES

\* the upstream call of a request's kind, ticker and range
UrlOf(kind, ticker, range) ==
    CASE kind = "quote"      -> fetch_quote_url(ticker)
      [] kind = "quote_full" -> fetch_quote_with_details_url(ticker)
      [] kind = "history"    -> fetch_historical_url(ticker, range)

\* every entry was stored after a successful upstream call, and no entry
\* under the key of a request comes from a call other than the one of that
\* request's kind, ticker and range
Provenance ==
    /\ DOMAIN origin = DOMAIN cache
    /\ \A p \in Procs :
          /\ (h[p].kind \in SingleKinds /\ h[p].cache_key \in DOMAIN origin)
             => origin[h[p].cache_key] =
                    {UrlOf(h[p].kind, h[p].ticker, h[p].range)}
          /\ h[p].kind = "batch"
             => \A j \in 1..Len(h[p].ticker_list) :
                   QuoteKey(h[p].ticker_list[j]) \in DOMAIN origin
                   => origin[QuoteKey(h[p].ticker_list[j])] =
                          {fetch_quote_url(h[p].ticker_list[j])}

\* C16 (cache provenance), as claimed.  In every state, under every
\* interleaving, the entry under a key holds a payload returned by a
\* successful upstream call of that key's own kind, ticker and range; and a
\* response or batch item with source "cache" carries exactly the payload
\* that lies under the request's key at the moment of the read, in an entry
\* less than 5 minutes old at that moment.
C16_CacheProvenance ==
    [][ /\ Provenance'
        /\ \A p \in Procs :
              ( (Begins(p) \/ Resumes(p)) /\ h'[p].kind \in SingleKinds
                /\ h'[p].out.type = "response" /\ h'[p].out.source = "cache" )
              => /\ Begins(p)
                 /\ Fresh(cache, h'[p].cache_key, now)
                 /\ h'[p].out.data = cache[h'[p].cache_key].data
        /\ \A p \in Procs :
              ((Begins(p) \/ Resumes(p)) /\ h'[p].kind = "batch")
              => \A j \in 1..Len(h'[p].results) :
                    ( /\ j > (IF Begins(p) THEN 0 ELSE Len(h[p].results))
                      /\ "source" \in DOMAIN h'[p].results[j]
                      /\ h'[p].results[j].source = "cache" )
                    => LET k == QuoteKey(h'[p].ticker_list[j])
                       IN  /\ Fresh(cache', k, now)
                           /\ h'[p].results[j].data = cache'[k].data
      ]_vars

(***************************************************************************)
(* Properties of the batch request among other requests                    *)
(***************************************************************************)
\* batch and single quote share the entry of a ticker, for the payloads in
\* `payloads`
SharedEntry(payloads) ==
    /\ \A p \in Procs :
          (h'[p].kind = "batch" /\ h'[p].pc = "await")
          => h'[p].cache_key = CacheKey("quote", h'[p].ticker, <<>>)
    \* a successful batch item for T, then get_quote(T) within the TTL
    /\ \A p, q \in Procs, j \in 1..MaxLen :
          ( /\ h[p].kind = "batch" /\ h[p].pc = "done"
            /\ j <= Len(h[p].results)
            /\ "source" \in DOMAIN h[p].results[j]
            /\ h[p].results[j].source = "api"
            /\ h[p].results[j].data \in payloads
            /\ Begins(q) /\ h'[q].kind = "quote"
            /\ h'[q].ticker = h[p].results[j].ticker
            /\ Fresh(cache, h'[q].cache_key, now)
            /\ cache[h'[q].cache_key].data \in payloads )
          => /\ h'[q].pc = "done" /\ h'[q].calls = 0
             /\ h'[q].out = Response("cache", cache[h'[q].cache_key].data)
    \* a successful get_quote(T), then a batch that begins with T
    /\ \A p, q \in Procs :
          ( /\ h[p].kind = "quote" /\ h[p].pc = "done" /\ h[p].calls = 1
            /\ Succeeds(h[p].reply) /\ Payload(h[p]) \in payloads
            /\ Begins(q) /\ h'[q].kind = "batch"
            /\ h'[q].ticker_list[1] = h[p].ticker
            /\ Fresh(cache, h[p].cache_key, now)
            /\ cache[h[p].cache_key].data \in payloads )
          => /\ Len(h'[q].results) >= 1
             /\ h'[q].results[1] =
                    CacheItem(h[p].ticker, cache[h[p].cache_key].data)
    \* a ticker twice in a row in one batch
    /\ \A p \in Procs :
          ( /\ Resumes(p) /\ h[p].kind = "batch"
            /\ Len(h[p].results) + 2 <= Len(h[p].ticker_list)
            /\ h[p].ticker_list[Len(h[p].results) + 2] = h[p].ticker )
          => IF Succeeds(h'[p].reply)
             THEN Payload(h'[p]) \in payloads
                  => /\ Len(h'[p].results) >= Len(h[p].results) + 2
                     /\ h'[p].results[Len(h[p].results) + 2] =
                            CacheItem(h[p].ticker, Payload(h'[p]))
                     /\ \/ h'[p].calls = h[p].calls
                        \/ /\ h'[p].pc = "await"
                           /\ Len(h'[p].results) >= Len(h[p].results) + 2
             ELSE ~Truthy(get_from_cache(cache, h[p].cache_key, now))
                  => /\ h'[p].pc = "await"
                     /\ Len(h'[p].results) = Len(h[p].results) + 1
                     /\ h'[p].calls = h[p].calls + 1
                     /\ h'[p].url = fetch_quote_url(h[p].ticker)

\* C17 (batch and single quote share one entry per ticker), as claimed.
\* The batch uses the key of get_quote for each ticker; after a successful
\* batch item for T a get_quote(T) within the TTL is a cache hit, and the
\* other way round; when a ticker occurs twice in one batch and the call of
\* its first occurrence succeeded, the second occurrence is answered with
\* source "cache" and without a second call; when it failed, the second
\* occurrence calls upstream again.  For every payload the upstream can
\* return, the empty object included.
C17_SharedEntry ==
    [][ SharedEntry({{}, {"price"}}) ]_vars

\* C18 (termination without retries).  With an upstream whose calls all end,
\* every request that waits ends.  A single-ticker request issues at most
\* one call and ends with a response or with an error; a batch request of n
\* segments issues at most n calls and ends with a results list of n
\* entries; and a call that fails is not issued again by its request: the
\* single-ticker request ends with the error, the batch records the error
\* and goes on to the next item.
C18_Termination ==
    /\ \A p \in Procs : (h[p].pc = "await") ~> (h[p].pc = "done")
    /\ [](\A p \in Procs :
            /\ h[p].kind \in SingleKinds
               => /\ h[p].calls <= 1
                  /\ h[p].pc = "done" => h[p].out.type \in {"response", "error"}
            /\ h[p].kind = "batch"
               => /\ h[p].calls <= Len(Split(h[p].raw))
                  /\ h[p].pc = "done"
                     => /\ h[p].out.type = "batch"
                        /\ Len(h[p].out.results) = Len(Split(h[p].raw)))
    /\ [][ \A p \in Procs :
             (Resumes(p) /\ ~Succeeds(h'[p].reply))
             => IF h[p].kind = "batch"
                THEN /\ Len(h'[p].results) > Len(h[p].results)
                     /\ "error" \in DOMAIN h'[p].results[Len(h[p].results) + 1]
                     /\ h'[p].calls <= h[p].calls + 1
                ELSE /\ h'[p].pc = "done"
                     /\ h'[p].calls = h[p].calls
                     /\ h'[p].out.type = "error"
         ]_vars

\* a batch of two segments has ended after two calls that both failed, with
\* two error records
C18_Witness ==
    \E p \in Procs :
        /\ h[p].kind = "batch" /\ h[p].pc = "done" /\ h[p].calls = 2
        /\ Len(h[p].out.results) = 2
        /\ "error" \in DOMAIN h[p].out.results[1]
        /\ "error" \in DOMAIN h[p].out.results[2]

=============================================================================
